---- MODULE Spec2Model ----
(***************************************************************************)
(* Resource endpoints of the Northwoods housing-resource API               *)
(* (src/resources.py) over the `resources` table (src/models.py).          *)
(*                                                                         *)
(* Representation                                                          *)
(*   Optional[T]   None is <<>>, a present value v is <<v>>                *)
(*   str           a sequence of character codes (ASCII)                   *)
(*   float fee     an integer number of thousandths of a dollar            *)
(*   coordinates   whole degrees                                           *)
(*   distances     centimetres                                             *)
(*   timestamps    ticks of the database clock                             *)
(* Columns modelled: id, resource_type, name, description, county,         *)
(* seasonal_availability_winter, location, dump_station_fee, created_at,   *)
(* updated_at, is_active.  The other Optional text columns are handled by  *)
(* the handlers exactly as description is, seasonal_availability_summer as *)
(* seasonal_availability_winter, and the other DECIMAL(10,2) columns as    *)
(* dump_station_fee.                                                       *)
(***************************************************************************)
EXTENDS Integers, Sequences, FiniteSets, TLC

VARIABLES
    resources,   \* the rows of the resources table
    next_id,     \* the next value of the id sequence
    now,         \* the database clock
    resp,        \* the last request and its response
    deleted,     \* history: ids whose delete_resource returned 204
    submitted,   \* history: id -> create body, while no update/delete of that id
    sessions     \* per worker: the request it serves between lookup and commit

vars == <<resources, next_id, now, resp, deleted, submitted, sessions>>

-----------------------------------------------------------------------------
\* Bounds of the model

\* rows the table may hold
MaxRows == 2
\* committed write transactions (each advances the clock by one tick)
MaxNow == 3
\* largest offset requested from list_resources
MaxOffset == 2
\* rows of a table drawn for the listing specification
ListRows == 2

-----------------------------------------------------------------------------
\* Optional values

None == <<>>

Some(v) == <<v>>

Val(o) == o[1]

IsSet(o) == o # None

-----------------------------------------------------------------------------
\* Strings

\* "" (the empty str)
EmptyStr == <<>>

\* str.lower() / ILIKE case folding on one character code
Lower(c) == IF c \in 65..90 THEN c + 32 ELSE c

LowerStr(s) == [i \in 1..Len(s) |-> Lower(s[i])]

\* lexicographic s <= t (ORDER BY on a text column)
RECURSIVE StrLeq(_, _)
StrLeq(s, t) ==
    IF s = <<>> THEN TRUE
    ELSE IF t = <<>> THEN FALSE
    ELSE IF s[1] # t[1] THEN s[1] < t[1]
    ELSE StrLeq(Tail(s), Tail(t))

\* c occurs in s as a contiguous substring
IsSubstring(c, s) ==
    \E i \in 0..(Len(s) - Len(c)) :
        \A j \in 1..Len(c) : s[i + j] = c[j]

\* PostgreSQL LIKE: % matches any run of characters, _ any one character,
\* backslash takes the next pattern character literally
RECURSIVE Like(_, _)
Like(s, p) ==
    IF p = <<>> THEN s = <<>>
    ELSE IF p[1] = 37
        THEN \E k \in 0..Len(s) : Like(SubSeq(s, k + 1, Len(s)), Tail(p))
    ELSE IF p[1] = 92
        THEN /\ Len(p) >= 2
             /\ s # <<>>
             /\ s[1] = p[2]
             /\ Like(Tail(s), Tail(Tail(p)))
    ELSE IF s = <<>> THEN FALSE
    ELSE IF p[1] = 95 THEN Like(Tail(s), Tail(p))
    ELSE s[1] = p[1] /\ Like(Tail(s), Tail(p))

\* column.ilike(pattern): LIKE ignoring letter case
ILike(s, p) == Like(LowerStr(s), LowerStr(p))

\* f"%{county}%"
CountyPattern(county) == <<37>> \o county \o <<37>>

-----------------------------------------------------------------------------
\* Column types

\* f'POINT({longitude} {latitude})' read by the Geography column: x is the
\* longitude, y the latitude
PointWKT(longitude, latitude) == [lon |-> longitude, lat |-> latitude]

\* DECIMAL(10, 2): a float is stored rounded to hundredths (half up)
DecimalColumn(fee) == IF IsSet(fee) THEN Some((Val(fee) + 5) \div 10) ELSE None

\* a DECIMAL(10, 2) value read back as a float
DecimalToFloat(col) == IF IsSet(col) THEN Some(Val(col) * 10) ELSE None

\* nullable = False columns hold a value
NotNullOk(row) == IsSet(row.name)

Abs(x) == IF x < 0 THEN -x ELSE x

\* ST_Distance on geography points, in centimetres
Distance(a, b) == 11132000 * (Abs(a.lon - b.lon) + Abs(a.lat - b.lat))

\* radius_miles * 1609.34, in centimetres
RadiusMeters(radius_miles) == radius_miles * 160934

\* ST_DWithin(location, point, radius): NULL (not true) for a NULL location
DWithin(location, point, radius) ==
    IsSet(location) /\ Distance(Val(location), point) <= radius

-----------------------------------------------------------------------------
\* Responses

\* LocationResponse
LocationResponse(location) ==
    IF IsSet(location)
    THEN Some([latitude |-> Val(location).lat, longitude |-> Val(location).lon])
    ELSE None

\* ResourceResponse built from a row
ResourceResponse(row) ==
    [id |-> row.id,
     resource_type |-> row.resource_type,
     name |-> row.name,
     description |-> row.description,
     county |-> row.county,
     seasonal_availability_winter |-> row.seasonal_availability_winter,
     dump_station_fee |-> DecimalToFloat(row.dump_station_fee),
     location |-> LocationResponse(row.location),
     created_at |-> row.created_at,
     updated_at |-> row.updated_at,
     is_active |-> row.is_active]

\* the last request and its response; `raised` names the call of the handler's
\* try block that raised ("" when none did)
NoRequest ==
    [op |-> "none", status |-> 0, id |-> 0, req |-> None, out |-> None,
     raised |-> ""]

Response(op, status, id, req, out) ==
    [op |-> op, status |-> status, id |-> id, req |-> req, out |-> out,
     raised |-> ""]

\* the except branch: HTTPException(status_code=400, ...)
ErrorResponse(op, id, req, raised) ==
    [op |-> op, status |-> 400, id |-> id, req |-> req, out |-> None,
     raised |-> raised]

\* RowsById with the is_active == True filter of get_resource added
RowsByIdActiveOnly(id) == {r \in resources : r.id = id /\ r.is_active}

\* db.query(models.Resource).filter(models.Resource.id == resource_id)
RowsById(id) == {r \in resources : r.id = id}

\* how the try block may end: db.commit() raises when a constraint is
\* violated, and db.commit() or the db.refresh() after it may raise for reasons
\* outside the handler (connection, server)
TryOutcomes(staged) ==
    IF NotNullOk(staged) THEN {"ok", "commit", "refresh"} ELSE {"commit"}

\* Rollback that leaves the handler's pending changes in the table
RollbackKeepsStaged(before, staged) == staged

\* db.rollback(): the table as it was before the handler's changes
Rollback(before, staged) == before

-----------------------------------------------------------------------------
\* create_resource

\* models.Resource(**resource_data) as inserted at commit time t
NewRow(id, body, t) ==
    [id |-> id,
     resource_type |-> body.resource_type,
     name |-> Some(body.name),
     description |-> body.description,
     county |-> body.county,
     seasonal_availability_winter |-> Some(body.seasonal_availability_winter),
     dump_station_fee |-> DecimalColumn(body.dump_station_fee),
     location |-> IF IsSet(body.latitude) /\ IsSet(body.longitude)
                  THEN Some(PointWKT(Val(body.longitude), Val(body.latitude)))
                  ELSE None,
     created_at |-> t,
     updated_at |-> t,
     is_active |-> TRUE]

CreateResource(body) ==
    /\ Cardinality(resources) < MaxRows
    /\ now < MaxNow
    /\ LET row == NewRow(next_id, body, now + 1)
           staged == resources \cup {row}
       IN \E end \in TryOutcomes(row) :
            IF end = "commit"
            THEN /\ resources' = Rollback(resources, staged)
                 /\ resp' = ErrorResponse("create", 0, body, end)
                 /\ UNCHANGED <<next_id, now, deleted, submitted>>
            ELSE /\ resources' = staged
                 /\ next_id' = next_id + 1
                 /\ now' = now + 1
                 /\ resp' = IF end = "ok"
                            THEN Response("create", 201, row.id, body,
                                          Some(ResourceResponse(row)))
                            ELSE ErrorResponse("create", 0, body, end)
                 /\ submitted' = IF end = "ok"
                                 THEN submitted \cup {<<row.id, body>>}
                                 ELSE submitted
                 /\ UNCHANGED deleted

-----------------------------------------------------------------------------
\* get_resource

\* ActiveById without the is_active == True filter
ActiveByIdAnyState(id) == RowsById(id)

\* .filter(id == resource_id, is_active == True)
ActiveById(id) == {r \in RowsById(id) : r.is_active}

GetResource(id) ==
    /\ IF ActiveById(id) = {}
       THEN resp' = Response("get", 404, id, None, None)
       ELSE \E r \in ActiveById(id) :
               resp' = Response("get", 200, id, None, Some(ResourceResponse(r)))
    /\ UNCHANGED <<resources, next_id, now, deleted, submitted>>

-----------------------------------------------------------------------------
\* delete_resource

\* db_resource.is_active = False, flushed at commit time t (onupdate=func.now()
\* applies when the UPDATE changes a column)
Deactivate(r, t) ==
    IF r.is_active
    THEN [r EXCEPT !.is_active = FALSE, !.updated_at = t]
    ELSE r

DeleteResource(id) ==
    IF RowsById(id) = {}
    THEN /\ resp' = Response("delete", 404, id, None, None)
         /\ UNCHANGED <<resources, next_id, now, deleted, submitted>>
    ELSE /\ now < MaxNow
         /\ \E r \in RowsById(id) :
              LET row == Deactivate(r, now + 1)
                  staged == (resources \ {r}) \cup {row}
              IN \E end \in TryOutcomes(row) \ {"refresh"} :
                   IF end = "commit"
                   THEN /\ resources' = Rollback(resources, staged)
                        /\ resp' = ErrorResponse("delete", id, None, end)
                        /\ UNCHANGED <<next_id, now, deleted, submitted>>
                   ELSE /\ resources' = staged
                        /\ now' = now + 1
                        /\ resp' = Response("delete", 204, id, None, None)
                        /\ deleted' = deleted \cup {id}
                        /\ submitted' = {e \in submitted : e[1] # id}
                        /\ UNCHANGED next_id

-----------------------------------------------------------------------------
\* update_resource

\* resource_update.<f>: None when the body does not set f
Field(u, f) == IF f \in DOMAIN u THEN u[f] ELSE None

\* resource_update.dict(exclude_unset=True, exclude={'latitude', 'longitude'})
UpdateData(u) == DOMAIN u \ {"latitude", "longitude"}

\* update_data['location'] is assigned
LocationProvided(u) == IsSet(Field(u, "latitude")) /\ IsSet(Field(u, "longitude"))

\* the columns a ResourceUpdate body can name
UpdatableColumns ==
    {"name", "description", "seasonal_availability_winter", "dump_station_fee"}

\* ApplyUpdate with resource_update.dict() lacking exclude_unset=True: unset
\* fields are assigned None
ApplyUpdateAllFields(r, u, t) ==
    LET set == [f \in DOMAIN r |->
                  IF f \in UpdatableColumns
                  THEN IF f = "dump_station_fee"
                       THEN DecimalColumn(Field(u, f)) ELSE Field(u, f)
                  ELSE IF f = "location" /\ LocationProvided(u)
                  THEN Some(PointWKT(Val(u.longitude), Val(u.latitude)))
                  ELSE r[f]]
        dirty == set # r \/ LocationProvided(u)
    IN IF dirty THEN [set EXCEPT !.updated_at = t] ELSE set

\* the setattr loop, flushed at commit time t; onupdate=func.now() applies
\* when an UPDATE is emitted, i.e. when some attribute has a net change
ApplyUpdate(r, u, t) ==
    LET set == [f \in DOMAIN r |->
                  IF f \in UpdateData(u)
                  THEN IF f = "dump_station_fee" THEN DecimalColumn(u[f]) ELSE u[f]
                  ELSE IF f = "location" /\ LocationProvided(u)
                  THEN Some(PointWKT(Val(u.longitude), Val(u.latitude)))
                  ELSE r[f]]
        dirty == set # r \/ LocationProvided(u)
    IN IF dirty THEN [set EXCEPT !.updated_at = t] ELSE set

UpdateResource(id, u) ==
    IF ActiveById(id) = {}
    THEN /\ resp' = Response("update", 404, id, u, None)
         /\ UNCHANGED <<resources, next_id, now, deleted, submitted>>
    ELSE /\ now < MaxNow
         /\ \E r \in ActiveById(id) :
              LET row == ApplyUpdate(r, u, now + 1)
                  staged == (resources \ {r}) \cup {row}
              IN \E end \in TryOutcomes(row) :
                   IF end = "commit"
                   THEN /\ resources' = Rollback(resources, staged)
                        /\ resp' = ErrorResponse("update", id, u, end)
                        /\ UNCHANGED <<next_id, now, deleted, submitted>>
                   ELSE /\ resources' = staged
                        /\ now' = now + 1
                        /\ resp' = IF end = "ok"
                                   THEN Response("update", 200, id, u,
                                                 Some(ResourceResponse(row)))
                                   ELSE ErrorResponse("update", id, u, end)
                        /\ submitted' = {e \in submitted : e[1] # id}
                        /\ UNCHANGED <<next_id, deleted>>

-----------------------------------------------------------------------------
\* update_resource and delete_resource as two database steps each: the
\* SELECT ... first() of the lookup, then the UPDATE of db.commit().  Each
\* request has its own Session (get_db), so between the two steps another
\* worker's request may run.

\* the uvicorn workers / threadpool threads that serve requests
Workers == {"w1", "w2"}

\* a worker with no request between lookup and commit
Idle == [pc |-> "idle", op |-> "", id |-> 0, u |-> <<>>, loaded |-> None]

\* a worker holding the row object its lookup returned
Loaded(op, id, u, r) ==
    [pc |-> "loaded", op |-> op, id |-> id, u |-> u, loaded |-> Some(r)]

\* the UPDATE the unit of work emits: SET only the attributes whose value
\* differs from the one loaded, WHERE id = the row's id, applied to the row
\* as it is in the table at commit time
Flush(cur, loaded, staged) ==
    [f \in DOMAIN cur |-> IF staged[f] # loaded[f] THEN staged[f] ELSE cur[f]]

\* update_resource up to `if not resource: raise HTTPException(404)`
UpdateLookup(w, id, u) ==
    /\ sessions[w].pc = "idle"
    /\ IF ActiveById(id) = {}
       THEN /\ resp' = Response("update", 404, id, u, None)
            /\ UNCHANGED <<resources, next_id, now, deleted, submitted, sessions>>
       ELSE /\ \E r \in ActiveById(id) :
                 sessions' = [sessions EXCEPT ![w] = Loaded("update", id, u, r)]
            /\ UNCHANGED <<resources, next_id, now, resp, deleted, submitted>>

\* update_resource from the setattr loop to the return: commit, refresh
UpdateCommit(w) ==
    /\ sessions[w].pc = "loaded"
    /\ sessions[w].op = "update"
    /\ now < MaxNow
    /\ LET id == sessions[w].id
           u == sessions[w].u
           loaded == Val(sessions[w].loaded)
       IN \E cur \in RowsById(id) :
            LET row == Flush(cur, loaded, ApplyUpdate(loaded, u, now + 1))
                staged == (resources \ {cur}) \cup {row}
            IN \E end \in TryOutcomes(row) :
                 /\ sessions' = [sessions EXCEPT ![w] = Idle]
                 /\ IF end = "commit"
                    THEN /\ resources' = Rollback(resources, staged)
                         /\ resp' = ErrorResponse("update", id, u, end)
                         /\ UNCHANGED <<next_id, now, deleted, submitted>>
                    ELSE /\ resources' = staged
                         /\ now' = now + 1
                         /\ resp' = IF end = "ok"
                                    THEN Response("update", 200, id, u,
                                                  Some(ResourceResponse(row)))
                                    ELSE ErrorResponse("update", id, u, end)
                         /\ submitted' = {e \in submitted : e[1] # id}
                         /\ UNCHANGED <<next_id, deleted>>

\* delete_resource up to `if not resource: raise HTTPException(404)`
DeleteLookup(w, id) ==
    /\ sessions[w].pc = "idle"
    /\ IF RowsById(id) = {}
       THEN /\ resp' = Response("delete", 404, id, None, None)
            /\ UNCHANGED <<resources, next_id, now, deleted, submitted, sessions>>
       ELSE /\ \E r \in RowsById(id) :
                 sessions' = [sessions EXCEPT ![w] = Loaded("delete", id, <<>>, r)]
            /\ UNCHANGED <<resources, next_id, now, resp, deleted, submitted>>

\* delete_resource from `resource.is_active = False` to the return
DeleteCommit(w) ==
    /\ sessions[w].pc = "loaded"
    /\ sessions[w].op = "delete"
    /\ now < MaxNow
    /\ LET id == sessions[w].id
           loaded == Val(sessions[w].loaded)
       IN \E cur \in RowsById(id) :
            LET row == Flush(cur, loaded, Deactivate(loaded, now + 1))
                staged == (resources \ {cur}) \cup {row}
            IN \E end \in TryOutcomes(row) \ {"refresh"} :
                 /\ sessions' = [sessions EXCEPT ![w] = Idle]
                 /\ IF end = "commit"
                    THEN /\ resources' = Rollback(resources, staged)
                         /\ resp' = ErrorResponse("delete", id, None, end)
                         /\ UNCHANGED <<next_id, now, deleted, submitted>>
                    ELSE /\ resources' = staged
                         /\ now' = now + 1
                         /\ resp' = Response("delete", 204, id, None, None)
                         /\ deleted' = deleted \cup {id}
                         /\ submitted' = {e \in submitted : e[1] # id}
                         /\ UNCHANGED next_id

-----------------------------------------------------------------------------
\* list_resources

\* `if resource_type:` / `if county:` -- None and "" both skip the filter
TypeSupplied(q) == IsSet(q.resource_type) /\ Val(q.resource_type) # ""

CountySupplied(q) == IsSet(q.county) /\ Val(q.county) # EmptyStr

\* latitude is not None and longitude is not None and radius_miles is not None
ProximityRequested(q) ==
    IsSet(q.latitude) /\ IsSet(q.longitude) /\ IsSet(q.radius_miles)

\* ST_GeogFromText(f'POINT({longitude} {latitude})')
QueryPoint(q) == PointWKT(Val(q.longitude), Val(q.latitude))

\* models.Resource.county.ilike(f"%{county}%")
CountyMatches(county, c) == ILike(county, CountyPattern(c))

\* Matches without the is_active restriction of the base query
MatchesInactiveToo(r, q) ==
    /\ TypeSupplied(q) => r.resource_type = Val(q.resource_type)
    /\ CountySupplied(q) => CountyMatches(r.county, Val(q.county))
    /\ IsSet(q.seasonal_winter) =>
          r.seasonal_availability_winter = q.seasonal_winter
    /\ ProximityRequested(q) =>
          DWithin(r.location, QueryPoint(q), RadiusMeters(Val(q.radius_miles)))

\* Matches with `if seasonal_winter:` in place of `is not None`
MatchesWinterTruthy(r, q) ==
    /\ r.is_active
    /\ TypeSupplied(q) => r.resource_type = Val(q.resource_type)
    /\ CountySupplied(q) => CountyMatches(r.county, Val(q.county))
    /\ q.seasonal_winter = Some(TRUE) =>
          r.seasonal_availability_winter = q.seasonal_winter
    /\ ProximityRequested(q) =>
          DWithin(r.location, QueryPoint(q), RadiusMeters(Val(q.radius_miles)))

\* the WHERE clause built by the handler
Matches(r, q) ==
    /\ r.is_active
    /\ TypeSupplied(q) => r.resource_type = Val(q.resource_type)
    /\ CountySupplied(q) => CountyMatches(r.county, Val(q.county))
    /\ IsSet(q.seasonal_winter) =>
          r.seasonal_availability_winter = q.seasonal_winter
    /\ ProximityRequested(q) =>
          DWithin(r.location, QueryPoint(q), RadiusMeters(Val(q.radius_miles)))

\* Matching when the proximity branch tests latitude and longitude only: a
\* missing radius makes ST_DWithin NULL for every row
MatchingRadiusUnchecked(rows, q) ==
    IF IsSet(q.latitude) /\ IsSet(q.longitude) /\ ~IsSet(q.radius_miles)
    THEN {}
    ELSE {r \in rows : Matches(r, q)}

Matching(rows, q) == {r \in rows : Matches(r, q)}

\* OrderLeq without the switch to distance ordering
OrderLeqByName(a, b, q) == StrLeq(Val(a.name), Val(b.name))

\* the ORDER BY clause: a may come before b
OrderLeq(a, b, q) ==
    IF ProximityRequested(q)
    THEN Distance(Val(a.location), QueryPoint(q))
            <= Distance(Val(b.location), QueryPoint(q))
    ELSE StrLeq(Val(a.name), Val(b.name))

\* the orders in which the database may return rows S under the ORDER BY
\* (rows with equal keys come in any order)
RECURSIVE Orderings(_, _)
Orderings(S, q) ==
    IF S = {} THEN {<<>>}
    ELSE UNION {{<<m>> \o t : t \in Orderings(S \ {m}, q)} :
                   m \in {x \in S : \A y \in S : OrderLeq(x, y, q)}}

\* query.count()
QueryCount(rows, q) == Cardinality(Matching(rows, q))

\* Page that applies the limit and leaves the offset out
PageFromStart(ordered, limit, offset) ==
    SubSeq(ordered, 1, IF limit < Len(ordered) THEN limit ELSE Len(ordered))

\* query.offset(offset).limit(limit).all()
Page(ordered, limit, offset) ==
    SubSeq(ordered, offset + 1,
           IF offset + limit < Len(ordered) THEN offset + limit ELSE Len(ordered))

\* ListResponse with the total counted after pagination
ListResponsePageCount(rows, q, limit, offset, ordered) ==
    LET page == Page(ordered, limit, offset)
    IN [total |-> Len(page),
        items |-> [i \in 1..Len(page) |-> ResourceResponse(page[i])],
        limit |-> limit,
        offset |-> offset]

\* the returned dict (a ResourceListResponse), `ordered` being the rows in the
\* order the database yields them
ListResponse(rows, q, limit, offset, ordered) ==
    LET page == Page(ordered, limit, offset)
    IN [total |-> QueryCount(rows, q),
        items |-> [i \in 1..Len(page) |-> ResourceResponse(page[i])],
        limit |-> limit,
        offset |-> offset]

\* the responses list_resources may give over the table `rows`
ListResponses(rows, q, limit, offset) ==
    {ListResponse(rows, q, limit, offset, ordered) :
        ordered \in Orderings(Matching(rows, q), q)}

ListResources(q, limit, offset) ==
    /\ \E out \in ListResponses(resources, q, limit, offset) :
         resp' = Response("list", 200, 0,
                          [q |-> q, limit |-> limit, offset |-> offset], out)
    /\ UNCHANGED <<resources, next_id, now, deleted, submitted>>

-----------------------------------------------------------------------------
\* Requests explored.  Characters: A 65, B 66, a 97, b 98, d 100, % 37, _ 95

\* Query(...) defaults: limit 50, offset 0; limit is validated ge=1, le=100
DefaultLimit == 50
DefaultOffset == 0
MinLimit == 1
LimitCeiling == 100

Body(type, name, description, county, winter, fee, latitude, longitude) ==
    [resource_type |-> type, name |-> name, description |-> description,
     county |-> county, seasonal_availability_winter |-> winter,
     dump_station_fee |-> fee, latitude |-> latitude, longitude |-> longitude]

\* ResourceCreate bodies: with both coordinates and a fee of 1.235, with a
\* latitude only, and without coordinates
CreateBodies ==
    { Body("food", <<65>>, Some(<<100>>), <<65, 98>>, TRUE, Some(1235), Some(0), Some(1)),
      Body("shelter", <<66>>, None, <<98>>, FALSE, None, Some(1), None),
      Body("food", <<65>>, None, <<97, 66>>, TRUE, Some(1230), None, None) }

\* ResourceUpdate bodies (a field is in the record iff the body sets it)
UpdateBodies ==
    { <<>>,
      [name |-> Some(<<66>>)],
      [name |-> None],
      [description |-> None, latitude |-> Some(0)],
      [latitude |-> Some(1), longitude |-> Some(1)],
      [seasonal_availability_winter |-> Some(FALSE), dump_station_fee |-> Some(2004)] }

Ids == 1..(MaxRows + 1)

\* the update bodies of the interleaved requests: those that set at most the name
ConcUpdateBodies == {u \in UpdateBodies : DOMAIN u \subseteq {"name"}}

Params(type, county, latitude, longitude, radius_miles, winter) ==
    [resource_type |-> type, county |-> county, latitude |-> latitude,
     longitude |-> longitude, radius_miles |-> radius_miles,
     seasonal_winter |-> winter]

NoParams == Params(None, None, None, None, None, None)

\* list requests of the lifecycle specification
CrudQueries ==
    { NoParams,
      Params(Some("food"), Some(<<97>>), None, None, None, Some(TRUE)),
      Params(None, None, Some(0), Some(1), Some(100), None) }

\* list requests of the listing specification: every combination of the
\* filters, the county filter alone with more patterns, and an empty category
Queries ==
    { Params(t, c, la, lo, ra, w) :
        t \in {None, Some("food")},
        c \in {None, Some(<<98>>)},
        la \in {None, Some(0)},
        lo \in {None, Some(0), Some(1)},
        ra \in {None, Some(50), Some(100)},
        w \in {None, Some(TRUE), Some(FALSE)} }
    \cup
    { Params(None, Some(c), None, None, None, None) :
        c \in {EmptyStr, <<65>>, <<65, 66>>, <<98, 97>>, <<95>>, <<97, 95>>,
               <<37>>, <<66, 37>>} }
    \cup
    { Params(Some(""), None, None, None, None, w) : w \in {None, Some(FALSE)} }

Limits == {MinLimit, 2, LimitCeiling}

Offsets == 0..MaxOffset

\* rows a listing may find in the table
ListBodies ==
    { Body("food", <<65>>, None, <<65, 98>>, TRUE, None, Some(0), Some(0)),
      Body("shelter", <<66>>, None, <<98>>, FALSE, None, Some(0), Some(1)),
      Body("food", <<65>>, None, <<97, 66>>, FALSE, None, None, None),
      Body("food", <<66>>, None, <<97>>, TRUE, None, Some(1), Some(1)) }

\* a row created at tick id and, when not active, deleted at tick t
ListRow(id, body, active, t) ==
    IF active THEN NewRow(id, body, id) ELSE Deactivate(NewRow(id, body, id), t)

\* tables of up to ListRows rows, at most the first of them deleted
ListTables ==
    UNION { { {ListRow(i, f[i], i > 1 \/ act, n + 1) : i \in 1..n} :
                f \in [1..n -> ListBodies], act \in BOOLEAN } :
            n \in 0..ListRows }

-----------------------------------------------------------------------------
\* Specifications

Init ==
    /\ resources = {}
    /\ next_id = 1
    /\ now = 0
    /\ resp = NoRequest
    /\ deleted = {}
    /\ submitted = {}
    /\ sessions = [w \in Workers |-> Idle]

Next ==
    \/ /\ \E body \in CreateBodies : CreateResource(body)
       /\ UNCHANGED sessions
    \/ /\ \E q \in CrudQueries : ListResources(q, DefaultLimit, DefaultOffset)
       /\ UNCHANGED sessions
    \/ /\ \E id \in Ids : GetResource(id)
       /\ UNCHANGED sessions
    \/ /\ \E id \in Ids, u \in UpdateBodies : UpdateResource(id, u)
       /\ UNCHANGED sessions
    \/ /\ \E id \in Ids : DeleteResource(id)
       /\ UNCHANGED sessions

\* the resource lifecycle from an empty table
Spec == Init /\ [][Next]_vars

ListInit ==
    /\ resources \in ListTables
    /\ next_id = Cardinality(resources) + 1
    /\ now = Cardinality(resources) + 1
    /\ resp = NoRequest
    /\ deleted = {r.id : r \in {x \in resources : ~x.is_active}}
    /\ submitted = {}
    /\ sessions = [w \in Workers |-> Idle]

\* one request against the table drawn
ListNext ==
    /\ resp = NoRequest
    /\ \E q \in Queries, limit \in Limits, offset \in Offsets :
          ListResources(q, limit, offset)
    /\ UNCHANGED sessions

\* list_resources over a fixed table
SpecList == ListInit /\ [][ListNext]_vars

\* requests of several workers, interleaved at their database statements
ConcNext ==
    \/ /\ \E body \in CreateBodies : CreateResource(body)
       /\ UNCHANGED sessions
    \/ /\ \E id \in Ids : GetResource(id)
       /\ UNCHANGED sessions
    \/ \E w \in Workers, id \in Ids, u \in ConcUpdateBodies : UpdateLookup(w, id, u)
    \/ \E w \in Workers : UpdateCommit(w)
    \/ \E w \in Workers, id \in Ids : DeleteLookup(w, id)
    \/ \E w \in Workers : DeleteCommit(w)

\* update_resource and delete_resource running concurrently
SpecConc == Init /\ [][ConcNext]_vars

-----------------------------------------------------------------------------
\* Properties

IsList == resp.op = "list"

\* the items of a list response, as a set
Items == {resp.out.items[i] : i \in 1..Len(resp.out.items)}

\* C1, in every state: a resource whose delete_resource returned 204 is still
\* a row of the table, with is_active = false; a get_resource of its id
\* answers 404; no list_resources response holds an item with its id.
SoftDeletedState ==
    /\ \A id \in deleted : \E r \in resources : r.id = id /\ ~r.is_active
    /\ resp.op = "get" /\ resp.id \in deleted => resp.status = 404
    /\ IsList => \A item \in Items : item.id \notin deleted

\* C1, in every step: no request removes a row, and none sets is_active back
\* to true.
SoftDeletedStep ==
    \A r \in resources :
        \E r2 \in resources' : r2.id = r.id /\ (~r.is_active => ~r2.is_active)

\* C1: after delete_resource(id) succeeds, under every later sequence of
\* create/update/delete/list/get requests, get_resource(id) returns 404, no
\* list response contains the resource, and its row stays in storage with
\* is_active = false; no operation removes a row or reactivates one.
C1_SoftDeleteIsPermanent == []SoftDeletedState /\ [][SoftDeletedStep]_vars

\* C1 witness: a get_resource of a deleted id, answered while another
\* resource is active
C1_Witness ==
    /\ resp.op = "get"
    /\ resp.id \in deleted
    /\ \E r \in resources : r.is_active

\* the create body and the resource returned hold the same field values
SameFieldValues(body, out) ==
    /\ out.resource_type = body.resource_type
    /\ out.name = Some(body.name)
    /\ out.description = body.description
    /\ out.county = body.county
    /\ out.seasonal_availability_winter = Some(body.seasonal_availability_winter)
    /\ out.dump_station_fee = body.dump_station_fee
    /\ body.latitude =
          (IF IsSet(out.location) THEN Some(Val(out.location).latitude) ELSE None)
    /\ body.longitude =
          (IF IsSet(out.location) THEN Some(Val(out.location).longitude) ELSE None)

\* C2: a get_resource of the id returned by create_resource, with no update or
\* delete of that id in between, returns the field values submitted in the
\* create request.
C2_CreateThenGet ==
    resp.op = "get" /\ resp.status = 200 =>
        \A e \in submitted : e[1] = resp.id => SameFieldValues(e[2], Val(resp.out))

\* C3: the total of a list response is the number of rows matching the
\* filters before pagination, whatever limit and offset were requested.
C3_TotalIsPrePagination ==
    IsList => resp.out.total = Cardinality(Matching(resources, resp.req.q))

\* C3 witness: a page cut short by limit and offset
C3_Witness ==
    /\ IsList
    /\ resp.req.offset = 1
    /\ resp.req.limit = 1
    /\ Len(resp.out.items) = 1
    /\ resp.out.total > 1

\* a row or item satisfies the filters of q that are supplied (a category, a
\* county and a winter flag; an empty string supplies none)
SatisfiesSupplied(x, q) ==
    /\ TypeSupplied(q) => x.resource_type = Val(q.resource_type)
    /\ CountySupplied(q) => CountyMatches(x.county, Val(q.county))
    /\ IsSet(q.seasonal_winter) =>
          x.seasonal_availability_winter = Some(Val(q.seasonal_winter))

CountyOnlyRequest ==
    /\ IsList
    /\ CountySupplied(resp.req.q)
    /\ resp.req.q = [NoParams EXCEPT !.county = resp.req.q.county]
    /\ resp.req.limit = LimitCeiling
    /\ resp.req.offset = 0

\* C5: for a non-empty county string c, an active resource is matched by the
\* county filter if and only if c, ignoring letter case, occurs as a contiguous
\* substring of the resource's county.
C5_CountySubstring ==
    CountyOnlyRequest =>
        {item.id : item \in Items} =
            {r.id : r \in {x \in resources :
                /\ x.is_active
                /\ IsSubstring(LowerStr(Val(resp.req.q.county)), LowerStr(x.county))}}

\* distance of a returned item from the query point
ItemDistance(item, q) ==
    Distance(PointWKT(Val(item.location).longitude, Val(item.location).latitude),
             QueryPoint(q))

\* C6: with latitude, longitude and radius_miles all supplied, every returned
\* item has a location no farther from the query point than the radius (miles
\* converted to meters), no row without a location or beyond the radius is
\* counted in total, and the items are in non-decreasing order of distance.
C6_ProximityFilterAndOrder ==
    IsList /\ ProximityRequested(resp.req.q) =>
        LET q == resp.req.q
            items == resp.out.items
        IN /\ \A item \in Items :
                /\ IsSet(item.location)
                /\ ItemDistance(item, q) <= Val(q.radius_miles) * 160934
           /\ resp.out.total <=
                Cardinality({r \in resources :
                    /\ IsSet(r.location)
                    /\ Distance(Val(r.location), QueryPoint(q))
                          <= Val(q.radius_miles) * 160934})
           /\ \A i \in 1..(Len(items) - 1) :
                ItemDistance(items[i], q) <= ItemDistance(items[i + 1], q)

\* C6 witness: two items at different distances, the farther one first by name
C6_Witness ==
    /\ IsList
    /\ ProximityRequested(resp.req.q)
    /\ Len(resp.out.items) = 2
    /\ ItemDistance(resp.out.items[1], resp.req.q)
          < ItemDistance(resp.out.items[2], resp.req.q)
    /\ ~StrLeq(Val(resp.out.items[1].name), Val(resp.out.items[2].name))

\* some but not all of latitude, longitude, radius_miles are supplied
PartialProximity(q) ==
    /\ IsSet(q.latitude) \/ IsSet(q.longitude) \/ IsSet(q.radius_miles)
    /\ ~(IsSet(q.latitude) /\ IsSet(q.longitude) /\ IsSet(q.radius_miles))

\* q with none of the three proximity parameters
WithoutProximity(q) ==
    [q EXCEPT !.latitude = None, !.longitude = None, !.radius_miles = None]

\* C7: when only a proper subset of latitude, longitude, radius_miles is
\* supplied, the response (total, items and their order) is one the same
\* request gives with none of the three supplied, and the items are sorted by
\* name.
C7_PartialProximitySkipped ==
    IsList /\ PartialProximity(resp.req.q) =>
        /\ resp.out \in ListResponses(resources, WithoutProximity(resp.req.q),
                                      resp.req.limit, resp.req.offset)
        /\ \A i \in 1..(Len(resp.out.items) - 1) :
              StrLeq(Val(resp.out.items[i].name), Val(resp.out.items[i + 1].name))

\* C7 witness: latitude and longitude without a radius; the response holds a
\* resource without a location and one at another point, in name order
C7_Witness ==
    /\ IsList
    /\ IsSet(resp.req.q.latitude)
    /\ IsSet(resp.req.q.longitude)
    /\ ~IsSet(resp.req.q.radius_miles)
    /\ Len(resp.out.items) = 2
    /\ ~IsSet(resp.out.items[1].location)
    /\ IsSet(resp.out.items[2].location)
    /\ resp.out.items[1].name # resp.out.items[2].name

\* C8: when the commit fails inside create_resource, update_resource or
\* delete_resource, the request is answered 400 after a rollback and the
\* stored resources are exactly what they were before the request.
C8_FailedCommitChangesNothing ==
    [][resp'.raised = "commit" =>
          resp'.status = 400 /\ resources' = resources]_vars

\* C8 witness: a failed commit of an update that assigns a new name to an
\* active resource
C8_Witness ==
    /\ resp.op = "update"
    /\ resp.raised = "commit"
    /\ resp.req = [name |-> Some(<<66>>)]
    /\ \E r \in resources : r.id = resp.id /\ r.is_active /\ r.name # Some(<<66>>)

\* C9: get_resource and update_resource answer 404 exactly when no resource
\* with the id exists or that resource is inactive; delete_resource answers
\* 404 when no row with the id exists; a 404 leaves the stored state unchanged.
C9_NotFound ==
    [][ /\ resp'.op \in {"get", "update"} =>
              (resp'.status = 404 <=>
                  ~\E r \in resources : r.id = resp'.id /\ r.is_active)
        /\ resp'.op = "delete" =>
              ((\A r \in resources : r.id # resp'.id) => resp'.status = 404)
        /\ resp'.status = 404 => resources' = resources ]_vars

\* C9 witness: an update of an inactive resource answered 404
C9_Witness ==
    /\ resp.op = "update"
    /\ resp.status = 404
    /\ \E r \in resources : r.id = resp.id /\ ~r.is_active

\* column f of the resource is provided by the update body u (the location by
\* a latitude and a longitude together)
Provided(u, f) ==
    IF f = "location" THEN LocationProvided(u) ELSE f \in DOMAIN u

\* a successful update of resource resp'.id leaves every column outside
\* `exempt` that the body does not provide as it was, and every other row too
UpdateFrame(exempt) ==
    resp'.op = "update" /\ resp'.status = 200 =>
        /\ \A r \in resources : r.id # resp'.id => r \in resources'
        /\ \A r \in resources : \A r2 \in resources' :
              r.id = resp'.id /\ r2.id = resp'.id =>
                  \A f \in DOMAIN r \ exempt :
                      ~Provided(resp'.req, f) => r2[f] = r[f]
        /\ Cardinality(resources') = Cardinality(resources)

NameListed(q) == {r \in resources : r.is_active /\ SatisfiesSupplied(r, q)}

Min(a, b) == IF a < b THEN a ELSE b

Max(a, b) == IF a > b THEN a ELSE b

\* item can stand at position k (from 1) of the rows S put in name order
FitsAtPosition(item, k, S) ==
    /\ Cardinality({r \in S : ~StrLeq(Val(item.name), Val(r.name))}) <= k - 1
    /\ Cardinality({r \in S : StrLeq(Val(r.name), Val(item.name))}) >= k

\* C11: without proximity parameters the items of a list response are the
\* contiguous slice, starting at position offset, of the matching active
\* resources in name order: they are in non-decreasing name order, there are
\* min(limit, max(0, total - offset)) of them, and the echoed limit and offset
\* are the request's.
C11_PageIsSliceByName ==
    IsList /\ ~ProximityRequested(resp.req.q) =>
        LET items == resp.out.items
            S == NameListed(resp.req.q)
        IN /\ \A i \in 1..(Len(items) - 1) :
                StrLeq(Val(items[i].name), Val(items[i + 1].name))
           /\ Len(items) =
                Min(resp.req.limit, Max(0, resp.out.total - resp.req.offset))
           /\ resp.out.limit = resp.req.limit
           /\ resp.out.offset = resp.req.offset
           /\ \A i \in 1..Len(items) :
                /\ \E r \in S : ResourceResponse(r) = items[i]
                /\ FitsAtPosition(items[i], resp.req.offset + i, S)
           /\ \A i \in 1..Len(items) : \A j \in 1..Len(items) :
                items[i].id = items[j].id => i = j

\* C11 witness: offset 1 and limit 2 over two matching resources with
\* different names: the page is the second of them alone
C11_Witness ==
    /\ IsList
    /\ ~ProximityRequested(resp.req.q)
    /\ resp.req.offset = 1
    /\ resp.req.limit = 2
    /\ resp.out.total = 2
    /\ Len(resp.out.items) = 1
    /\ \E r \in NameListed(resp.req.q) :
          ~StrLeq(Val(resp.out.items[1].name), Val(r.name))

\* C12: delete_resource is idempotent: on a resource that is already inactive
\* it answers 204 (not 404) and leaves the stored state exactly as it was; a
\* delete changes nothing but is_active (and updated_at) of the targeted
\* resource.
C12_DeleteIdempotent ==
    [][resp'.op = "delete" =>
        /\ (\E r \in resources : r.id = resp'.id) /\ resp'.raised = "" =>
              resp'.status = 204
        /\ (\E r \in resources : r.id = resp'.id /\ ~r.is_active) =>
              resources' = resources
        /\ Cardinality(resources') = Cardinality(resources)
        /\ \A r \in resources : \E r2 \in resources' :
              /\ r2.id = r.id
              /\ r.id # resp'.id => r2 = r
              /\ \A f \in DOMAIN r \ {"is_active", "updated_at"} : r2[f] = r[f]
      ]_vars

\* C12 witness: a delete answered 204 for a resource deactivated by an
\* earlier delete (its updated_at is older than this request)
C12_Witness ==
    /\ resp.op = "delete"
    /\ resp.status = 204
    /\ \E r \in resources :
          r.id = resp.id /\ ~r.is_active /\ r.updated_at < now

-----------------------------------------------------------------------------
\* C13, in every state: a 200 response of get_resource or update_resource
\* carries an active resource -- once the deactivation of a resource is
\* committed by delete_resource, no update_resource request on the same id
\* returns that resource as a success, whatever the interleaving of the two
\* requests.
C13_ReturnedResourcesAreActive ==
    resp.op \in {"get", "update"} /\ resp.status = 200
        => Val(resp.out).is_active

\* the reachable state where the update's lookup preceded the delete's commit
C13_Witness ==
    \E w \in Workers :
        /\ sessions[w].pc = "loaded"
        /\ sessions[w].op = "update"
        /\ sessions[w].id \in deleted
        /\ \E r \in resources : r.id = sessions[w].id /\ ~r.is_active
=============================================================================
